---- MODULE Spec2Model ----
(***************************************************************************)
(* Model of the artwork search page (src/app/page.tsx) and of the proxy    *)
(* route (src/app/api/artwork/route.tsx).                                  *)
(*                                                                         *)
(* page.tsx holds the component twice: ArtworkSearchContent (lines 1-561)  *)
(* and an earlier Page (lines 562-889) with the same handleSearch and the   *)
(* same view, without the address bar.  The model follows the first.        *)
(*                                                                         *)
(* Text is a sequence of one-character strings, so that trimming and the   *)
(* URL encodings are computed character by character.  An optional value   *)
(* (null / undefined in the source) is a sequence of length 0 or 1:        *)
(* None == <<>> and Some(v) == <<v>>.                                      *)
(***************************************************************************)
EXTENDS Naturals, Sequences, FiniteSets, TLC

\* ------------------------------------------------------------------ bounds

\* Longest text a user types into a field or puts in a share link.
MaxLen == 2
\* Searches started by the user (button or Enter key) in one behaviour.
MaxSearches == 2
\* Field edits by the user in one behaviour.
MaxEdits == 1
\* Requests sent to the proxy by clients other than the page.
MaxDirect == 2

\* ------------------------------------------------------------------ text

None == <<>>
Some(v) == <<v>>

\* The characters the typed texts are made of: a plain character, white
\* space, and a character that URL encoding escapes.
Chars == {"a", " ", "/"}
Strings == UNION {[1..n -> Chars] : n \in 0..MaxLen}

Letters == {"a","b","c","d","e","f","g","h","i","j","k","l","m","n","o","p","q",
            "r","s","t","u","v","w","x","y","z",
            "A","B","C","D","E","F"}
Digits == {"0","1","2","3","4","5","6","7","8","9"}

\* String.prototype.trim: white space is removed at both ends.
RECURSIVE TrimStart(_)
TrimStart(s) ==
  IF s # <<>> /\ Head(s) = " " THEN TrimStart(Tail(s)) ELSE s

RECURSIVE TrimEnd(_)
TrimEnd(s) ==
  IF s # <<>> /\ s[Len(s)] = " " THEN TrimEnd(SubSeq(s, 1, Len(s) - 1)) ELSE s

trim(s) == TrimEnd(TrimStart(s))

\* The percent escape of one character (UTF-8 byte in upper-case hex).
PercentCode(c) ==
  CASE c = " " -> <<"%", "2", "0">>
    [] c = "%" -> <<"%", "2", "5">>
    [] c = "&" -> <<"%", "2", "6">>
    [] c = "+" -> <<"%", "2", "B">>
    [] c = "/" -> <<"%", "2", "F">>
    [] c = ":" -> <<"%", "3", "A">>
    [] c = "=" -> <<"%", "3", "D">>
    [] c = "?" -> <<"%", "3", "F">>

\* The character a percent escape stands for; None when the two characters
\* after the percent sign are not one of the escapes above.
PercentChar(h, l) ==
  CASE h = "2" /\ l = "0" -> Some(" ")
    [] h = "2" /\ l = "5" -> Some("%")
    [] h = "2" /\ l = "6" -> Some("&")
    [] h = "2" /\ l = "B" -> Some("+")
    [] h = "2" /\ l = "F" -> Some("/")
    [] h = "3" /\ l = "A" -> Some(":")
    [] h = "3" /\ l = "D" -> Some("=")
    [] h = "3" /\ l = "F" -> Some("?")
    [] OTHER -> None

\* encodeURIComponent leaves A-Z a-z 0-9 - _ . ! ~ * ' ( ) and escapes the rest.
UriUnreserved == Letters \cup Digits \cup {"-", "_", ".", "!", "~", "*", "'", "(", ")"}

RECURSIVE encodeURIComponent(_)
encodeURIComponent(s) ==
  IF s = <<>> THEN <<>>
  ELSE (IF Head(s) \in UriUnreserved THEN <<Head(s)>> ELSE PercentCode(Head(s)))
       \o encodeURIComponent(Tail(s))

\* URLSearchParams serialisation of a value (application/x-www-form-urlencoded):
\* leaves A-Z a-z 0-9 * - . _, writes a space as +, escapes the rest.
FormSafe == Letters \cup Digits \cup {"*", "-", ".", "_"}

RECURSIVE FormSerialize(_)
FormSerialize(s) ==
  IF s = <<>> THEN <<>>
  ELSE (IF Head(s) \in FormSafe THEN <<Head(s)>>
        ELSE IF Head(s) = " " THEN <<"+">>
        ELSE PercentCode(Head(s)))
       \o FormSerialize(Tail(s))

\* URLSearchParams parsing of a value: + is a space, percent escapes are decoded.
RECURSIVE FormParse(_)
FormParse(s) ==
  IF s = <<>> THEN <<>>
  ELSE IF Head(s) = "+" THEN <<" ">> \o FormParse(Tail(s))
  ELSE IF Head(s) = "%" /\ Len(s) >= 3 /\ PercentChar(s[2], s[3]) # None
       THEN PercentChar(s[2], s[3]) \o FormParse(SubSeq(s, 4, Len(s)))
  ELSE <<Head(s)>> \o FormParse(Tail(s))

\* searchParams.get(key) on a query string held as a record of raw values.
ParamGet(params, key) ==
  IF params[key] = None THEN None ELSE Some(FormParse(params[key][1]))

\* JavaScript truthiness of an optional text: null and "" are falsy.
Truthy(opt) == opt # None /\ opt[1] # <<>>

\* ------------------------------------------------------------------ constants of the page

\* 'https://api-test.artic.edu'
defaultApiUrl ==
  <<"h","t","t","p","s",":","/","/","a","p","i","-","t","e","s","t",".",
    "a","r","t","i","c",".","e","d","u">>

\* type QueryType = 'semantic' | 'nearest_neighbor' | 'similarity'
Semantic == <<"s","e","m","a","n","t","i","c">>
NearestNeighbor == <<"n","e","a","r","e","s","t","_","n","e","i","g","h","b","o","r">>
Similarity == <<"s","i","m","i","l","a","r","i","t","y">>
QueryType == {Semantic, NearestNeighbor, Similarity}

\* The pieces of the upstream paths.
ArtworksPath == <<"/","a","i","/","v","1","/","a","r","t","w","o","r","k","s","/">>
SearchQ == <<"s","e","a","r","c","h","?","q","=">>
NearestLimit == <<"/","n","e","a","r","e","s","t","?","l","i","m","i","t","=","3","0">>
SimilarityPart == <<"/","s","i","m","i","l","a","r","i","t","y","/">>

\* The messages of the validation errors.
QueryRequired == "Search query is required"
IdRequired == "Artwork ID is required"
BothIdsRequired == "Both artwork IDs are required for similarity search"
InvalidType == "Invalid search type"
FailedToFetch == "Failed to fetch results"
\* The messages of the errors thrown by fetch and by response.json().
NetworkErrorMessage == "TypeError: Failed to fetch"
JsonErrorMessage == "SyntaxError: Unexpected token"

\* apiUrl.replace(/\/$/, ''): one trailing slash is removed.
StripTrailingSlash(u) ==
  IF u # <<>> /\ u[Len(u)] = "/" THEN SubSeq(u, 1, Len(u) - 1) ELSE u

\* handleSearch with the query encoded as typed, not trimmed.
HandleSearchPathUntrimmed(qt, q, id, cid) ==
  IF qt = Semantic THEN
    IF trim(q) = <<>> THEN [ok |-> FALSE, path |-> <<>>, message |-> QueryRequired]
    ELSE [ok |-> TRUE, path |-> ArtworksPath \o SearchQ \o encodeURIComponent(q),
          message |-> ""]
  ELSE IF qt = NearestNeighbor THEN
    IF trim(id) = <<>> THEN [ok |-> FALSE, path |-> <<>>, message |-> IdRequired]
    ELSE [ok |-> TRUE,
          path |-> ArtworksPath \o encodeURIComponent(trim(id)) \o NearestLimit,
          message |-> ""]
  ELSE IF qt = Similarity THEN
    IF trim(id) = <<>> \/ trim(cid) = <<>>
    THEN [ok |-> FALSE, path |-> <<>>, message |-> BothIdsRequired]
    ELSE [ok |-> TRUE,
          path |-> ArtworksPath \o encodeURIComponent(trim(id)) \o SimilarityPart
                   \o encodeURIComponent(trim(cid)),
          message |-> ""]
  ELSE [ok |-> FALSE, path |-> <<>>, message |-> InvalidType]

\* The switch of handleSearch: the upstream path, or the validation error.
HandleSearchPath(qt, q, id, cid) ==
  IF qt = Semantic THEN
    IF trim(q) = <<>> THEN [ok |-> FALSE, path |-> <<>>, message |-> QueryRequired]
    ELSE [ok |-> TRUE, path |-> ArtworksPath \o SearchQ \o encodeURIComponent(trim(q)),
          message |-> ""]
  ELSE IF qt = NearestNeighbor THEN
    IF trim(id) = <<>> THEN [ok |-> FALSE, path |-> <<>>, message |-> IdRequired]
    ELSE [ok |-> TRUE,
          path |-> ArtworksPath \o encodeURIComponent(trim(id)) \o NearestLimit,
          message |-> ""]
  ELSE IF qt = Similarity THEN
    IF trim(id) = <<>> \/ trim(cid) = <<>>
    THEN [ok |-> FALSE, path |-> <<>>, message |-> BothIdsRequired]
    ELSE [ok |-> TRUE,
          path |-> ArtworksPath \o encodeURIComponent(trim(id)) \o SimilarityPart
                   \o encodeURIComponent(trim(cid)),
          message |-> ""]
  ELSE [ok |-> FALSE, path |-> <<>>, message |-> InvalidType]

\* The switch of runInitialSearch, on the optional values read from the
\* address bar (query?.trim() of null is undefined, which is falsy).
OptTrim(opt) == IF opt = None THEN <<>> ELSE trim(opt[1])

\* runInitialSearch with a similarity check that tests the ids as given, not
\* trimmed.
InitialSearchPathUnchecked(type, query, id, compareIdParam) ==
  IF type = Some(Semantic) THEN
    IF OptTrim(query) = <<>> THEN [ok |-> FALSE, path |-> <<>>, message |-> QueryRequired]
    ELSE [ok |-> TRUE,
          path |-> ArtworksPath \o SearchQ \o encodeURIComponent(OptTrim(query)),
          message |-> ""]
  ELSE IF type = Some(NearestNeighbor) THEN
    IF OptTrim(id) = <<>> THEN [ok |-> FALSE, path |-> <<>>, message |-> IdRequired]
    ELSE [ok |-> TRUE,
          path |-> ArtworksPath \o encodeURIComponent(OptTrim(id)) \o NearestLimit,
          message |-> ""]
  ELSE IF type = Some(Similarity) THEN
    IF ~Truthy(id) \/ ~Truthy(compareIdParam)
    THEN [ok |-> FALSE, path |-> <<>>, message |-> BothIdsRequired]
    ELSE [ok |-> TRUE,
          path |-> ArtworksPath \o encodeURIComponent(OptTrim(id)) \o SimilarityPart
                   \o encodeURIComponent(OptTrim(compareIdParam)),
          message |-> ""]
  ELSE [ok |-> FALSE, path |-> <<>>, message |-> InvalidType]

InitialSearchPath(type, query, id, compareIdParam) ==
  IF type = Some(Semantic) THEN
    IF OptTrim(query) = <<>> THEN [ok |-> FALSE, path |-> <<>>, message |-> QueryRequired]
    ELSE [ok |-> TRUE,
          path |-> ArtworksPath \o SearchQ \o encodeURIComponent(OptTrim(query)),
          message |-> ""]
  ELSE IF type = Some(NearestNeighbor) THEN
    IF OptTrim(id) = <<>> THEN [ok |-> FALSE, path |-> <<>>, message |-> IdRequired]
    ELSE [ok |-> TRUE,
          path |-> ArtworksPath \o encodeURIComponent(OptTrim(id)) \o NearestLimit,
          message |-> ""]
  ELSE IF type = Some(Similarity) THEN
    IF OptTrim(id) = <<>> \/ OptTrim(compareIdParam) = <<>>
    THEN [ok |-> FALSE, path |-> <<>>, message |-> BothIdsRequired]
    ELSE [ok |-> TRUE,
          path |-> ArtworksPath \o encodeURIComponent(OptTrim(id)) \o SimilarityPart
                   \o encodeURIComponent(OptTrim(compareIdParam)),
          message |-> ""]
  ELSE [ok |-> FALSE, path |-> <<>>, message |-> InvalidType]

\* `/api/artwork?path=${encodeURIComponent(apiPath)}`: the query string of the
\* request the page sends to the proxy, as a record of the raw values of the
\* two parameters the proxy reads.
ProxyUrl(apiPath) ==
  [apiUrl |-> None, path |-> Some(encodeURIComponent(apiPath))]

\* ------------------------------------------------------------------ HTTP

\* The JSON objects a response can carry, by the keys the code looks at.
Json(i, s, e, d) == [items |-> i, similarity_scores |-> s, error |-> e, detail |-> d]
JsonValues ==
  { Json(FALSE, FALSE, None, None),
    Json(TRUE, FALSE, None, None),
    Json(FALSE, TRUE, None, None),
    Json(TRUE, TRUE, None, None),
    Json(FALSE, FALSE, Some("upstream error"), None),
    Json(FALSE, FALSE, None, Some("upstream detail")),
    Json(FALSE, FALSE, Some("upstream error"), Some("upstream detail")),
    Json(FALSE, FALSE, Some(""), Some("upstream detail")) }

\* A body is a text: one that parses as JSON (to `value`, written compactly or
\* not) or one that does not.
NotJson == [parses |-> FALSE, value |-> Json(FALSE, FALSE, None, None), compact |-> FALSE]
Bodies ==
  {NotJson} \cup [parses : {TRUE}, value : JsonValues, compact : BOOLEAN]

\* response.json(): the parsed value, or None when parsing throws.
JsonParse(body) == IF body.parses THEN Some(body.value) ELSE None
\* The body NextResponse.json(data) writes: JSON.stringify(data).
JsonStringify(v) == [parses |-> TRUE, value |-> v, compact |-> TRUE]

Statuses == {200, 201, 404}
\* response.ok
Ok(status) == status >= 200 /\ status <= 299

Responses == [status : Statuses, body : Bodies]
\* What a fetch ends with: a response, or None when it rejects.
FetchOutcomes == {None} \cup {Some(r) : r \in Responses}

\* a ?? b on optional message strings: only undefined gives way to b.
OrElsePresent(a, b) == IF a # None THEN a ELSE b

\* a || b on optional message strings: undefined and "" are falsy.
OrElse(a, b) == IF a # None /\ a[1] # "" THEN a ELSE b

\* ------------------------------------------------------------------ state

VARIABLES
  addressBar,    \* the query string of the page's URL: raw value of each parameter
  apiUrl,        \* useState(defaultApiUrl)
  queryType,     \* useState<QueryType>('semantic')
  searchQuery,   \* useState('')
  artworkId,     \* useState('')
  compareId,     \* useState('')
  results,       \* useState(null): None, or Some(the JSON value received)
  loading,       \* useState(false)
  error,         \* useState(null): None, or Some(message)
  debugUrl,      \* useState('')
  isSharedLink,  \* useState(false)
  mounted,       \* whether the effect that reads the address bar has run
  timer,         \* the pending setTimeout(runInitialSearch, 100): None, or Some(closure)
  calls,         \* the searches awaiting the answer of their fetch
  issued,        \* number of fetches the page has issued
  started,       \* number of searches the user has started
  edits,         \* number of field edits the user has made
  proxy,         \* the invocations of the proxy's GET handler
  direct         \* number of requests sent to the proxy by other clients

pageVars == <<addressBar, apiUrl, queryType, searchQuery, artworkId, compareId,
              results, loading, error, debugUrl, isSharedLink, mounted, timer,
              calls, issued, started, edits>>
proxyVars == <<proxy, direct>>
vars == <<addressBar, apiUrl, queryType, searchQuery, artworkId, compareId,
          results, loading, error, debugUrl, isSharedLink, mounted, timer,
          calls, issued, started, edits, proxy, direct>>

\* The address bar a share link with these (decoded) values produces.
AddressOf(type, q, id, cid, api) ==
  LET raw(opt) == IF opt = None THEN None ELSE Some(FormSerialize(opt[1]))
  IN [type |-> raw(type), q |-> raw(q), id |-> raw(id), compareId |-> raw(cid),
      api |-> raw(api)]

NoParams == [type |-> None, q |-> None, id |-> None, compareId |-> None, api |-> None]

Optional(S) == {None} \cup {Some(v) : v \in S}

\* An address other than the default one, with a trailing slash.
OtherApiUrl == <<"h", "/">>
\* A `type` parameter that is no query type.
UnknownType == <<"x">>

\* The state of the component before its first effect runs, on a page opened
\* at an address whose parameters are drawn from the given sets.
InitPage(types, texts, apis) ==
  /\ \E t \in types, q \in texts, i \in texts, c \in texts, a \in apis :
        addressBar = AddressOf(t, q, i, c, a)
  /\ apiUrl = defaultApiUrl
  /\ queryType = Semantic
  /\ searchQuery = <<>>
  /\ artworkId = <<>>
  /\ compareId = <<>>
  /\ results = None
  /\ loading = FALSE
  /\ error = None
  /\ debugUrl = <<>>
  /\ isSharedLink = FALSE
  /\ mounted = FALSE
  /\ timer = None
  /\ calls = {}
  /\ issued = 0
  /\ started = 0
  /\ edits = 0
  /\ proxy = {}
  /\ direct = 0

\* ------------------------------------------------------------------ the page

\* The fetches of the page are numbered 1, 2, ... in the order they are issued.
NewCallId == issued + 1

\* The text of an optional value, "" for null.
TextOf(opt) == IF opt = None THEN <<>> ELSE opt[1]

\* updateUrl writing every field that is not empty, whatever the mode.
updateUrlEveryField ==
  [type |-> Some(FormSerialize(queryType)),
   q |-> IF searchQuery # <<>> THEN Some(FormSerialize(searchQuery)) ELSE None,
   id |-> IF artworkId # <<>> THEN Some(FormSerialize(artworkId)) ELSE None,
   compareId |-> IF compareId # <<>> THEN Some(FormSerialize(compareId)) ELSE None,
   api |-> IF apiUrl # defaultApiUrl THEN Some(FormSerialize(apiUrl)) ELSE None]

\* updateUrl: the query string pushed to the address bar.
updateUrl ==
  [type |-> Some(FormSerialize(queryType)),
   q |-> IF queryType = Semantic /\ searchQuery # <<>>
         THEN Some(FormSerialize(searchQuery)) ELSE None,
   id |-> IF queryType \in {NearestNeighbor, Similarity} /\ artworkId # <<>>
          THEN Some(FormSerialize(artworkId)) ELSE None,
   compareId |-> IF queryType = Similarity /\ compareId # <<>>
                 THEN Some(FormSerialize(compareId)) ELSE None,
   api |-> IF apiUrl # defaultApiUrl THEN Some(FormSerialize(apiUrl)) ELSE None]

\* The effect run once on mount: state is set from the address bar, and
\* runInitialSearch is scheduled when shouldRunSearch.
Mount ==
  /\ ~mounted
  /\ mounted' = TRUE
  /\ LET type == ParamGet(addressBar, "type")
         query == ParamGet(addressBar, "q")
         id == ParamGet(addressBar, "id")
         compareIdParam == ParamGet(addressBar, "compareId")
         api == ParamGet(addressBar, "api")
         typeKnown == Truthy(type) /\ type[1] \in QueryType
         stateUpdated == typeKnown \/ Truthy(query) \/ Truthy(id)
                         \/ Truthy(compareIdParam) \/ Truthy(api)
         shouldRunSearch ==
           \/ type = Some(Semantic) /\ Truthy(query)
           \/ type = Some(NearestNeighbor) /\ Truthy(id)
           \/ type = Some(Similarity) /\ Truthy(id) /\ Truthy(compareIdParam)
     IN /\ isSharedLink' = (Truthy(type) \/ Truthy(query) \/ Truthy(id)
                            \/ Truthy(compareIdParam) \/ Truthy(api))
        /\ queryType' = IF typeKnown THEN type[1] ELSE queryType
        /\ searchQuery' = IF Truthy(query) THEN query[1] ELSE searchQuery
        /\ artworkId' = IF Truthy(id) THEN id[1] ELSE artworkId
        /\ compareId' = IF Truthy(compareIdParam) THEN compareIdParam[1] ELSE compareId
        /\ apiUrl' = IF Truthy(api) THEN api[1] ELSE apiUrl
        /\ timer' = IF stateUpdated /\ shouldRunSearch
                    THEN Some([type |-> type, query |-> query, id |-> id,
                               compareIdParam |-> compareIdParam, api |-> api])
                    ELSE None
  /\ UNCHANGED <<addressBar, results, loading, error, debugUrl, calls, issued, started,
                 edits>>
  /\ UNCHANGED proxyVars

\* The record of a search that awaits its fetch: the values its closure
\* holds (the mode and the fields it validated, the path it built) and the
\* request it sent.
Call(n, mode, q, id, cid, apiPath) ==
  [n |-> n, mode |-> mode, query |-> q, id |-> id, compareId |-> cid,
   apiPath |-> apiPath, url |-> ProxyUrl(apiPath)]

\* runInitialSearch, from the timer to its fetch (or to the end, when the
\* validation throws).
RunInitialSearch ==
  /\ timer # None
  /\ timer' = None
  /\ LET t == timer[1]
         baseUrl == StripTrailingSlash(IF Truthy(t.api) THEN t.api[1] ELSE defaultApiUrl)
         built == InitialSearchPath(t.type, t.query, t.id, t.compareIdParam)
     IN /\ results' = None
        /\ IF built.ok
           THEN /\ loading' = TRUE
                /\ error' = None
                /\ debugUrl' = baseUrl \o built.path
                /\ calls' = calls \cup
                     {Call(NewCallId, t.type[1], TextOf(t.query), TextOf(t.id),
                           TextOf(t.compareIdParam), built.path)}
                /\ issued' = issued + 1
           ELSE /\ loading' = FALSE
                /\ error' = Some(built.message)
                /\ UNCHANGED <<debugUrl, calls, issued>>
  /\ UNCHANGED <<addressBar, apiUrl, queryType, searchQuery, artworkId, compareId,
                 isSharedLink, mounted, started, edits>>
  /\ UNCHANGED proxyVars

\* handleSearch(updateUrlFlag), from its call to its fetch (or to the end,
\* when the validation throws).
handleSearch(updateUrlFlag) ==
  /\ mounted
  /\ started' = started + 1
  /\ addressBar' = IF updateUrlFlag THEN updateUrl ELSE addressBar
  /\ LET baseUrl == StripTrailingSlash(apiUrl)
         built == HandleSearchPath(queryType, searchQuery, artworkId, compareId)
     IN /\ results' = None
        /\ IF built.ok
           THEN /\ loading' = TRUE
                /\ error' = None
                /\ debugUrl' = baseUrl \o built.path
                /\ calls' = calls \cup
                     {Call(NewCallId, queryType, searchQuery, artworkId, compareId,
                           built.path)}
                /\ issued' = issued + 1
           ELSE /\ loading' = FALSE
                /\ error' = Some(built.message)
                /\ debugUrl' = <<>>
                /\ UNCHANGED <<calls, issued>>
  /\ UNCHANGED <<apiUrl, queryType, searchQuery, artworkId, compareId, isSharedLink,
                 mounted, timer, edits>>
  /\ UNCHANGED proxyVars

\* The Search button: onClick={() => handleSearch(true)}, disabled={loading}.
ClickSearch == ~loading /\ handleSearch(TRUE)

\* handleKeyPress on Enter in an input field.
handleKeyPress == handleSearch(TRUE)

\* The end of a search without the finally block: loading is reset only
\* when results are set.
CompleteSearchNoFinally(c, outcome) ==
  /\ c \in calls
  /\ calls' = calls \ {c}
  /\ IF outcome = None
     THEN error' = Some(NetworkErrorMessage) /\ UNCHANGED <<results, loading>>
     ELSE LET response == outcome[1]
              data == JsonParse(response.body)
          IN IF data = None
             THEN error' = Some(JsonErrorMessage) /\ UNCHANGED <<results, loading>>
             ELSE IF ~Ok(response.status)
             THEN /\ error' = OrElse(data[1].error,
                                     OrElse(data[1].detail, Some(FailedToFetch)))
                  /\ UNCHANGED <<results, loading>>
             ELSE results' = data /\ loading' = FALSE /\ UNCHANGED error
  /\ UNCHANGED <<addressBar, apiUrl, queryType, searchQuery, artworkId, compareId,
                 debugUrl, isSharedLink, mounted, timer, issued, started, edits>>

\* The end of a search that drops the answer of a superseded fetch: only the
\* answer of the fetch issued last is applied.
CompleteSearchLatestOnly(c, outcome) ==
  /\ c \in calls
  /\ calls' = calls \ {c}
  /\ IF c.n < issued
     THEN UNCHANGED <<results, loading, error>>
     ELSE /\ loading' = FALSE
          /\ IF outcome = None
             THEN error' = Some(NetworkErrorMessage) /\ UNCHANGED results
             ELSE LET response == outcome[1]
                      data == JsonParse(response.body)
                  IN IF data = None
                     THEN error' = Some(JsonErrorMessage) /\ UNCHANGED results
                     ELSE IF ~Ok(response.status)
                     THEN /\ error' = OrElse(data[1].error,
                                             OrElse(data[1].detail, Some(FailedToFetch)))
                          /\ UNCHANGED results
                     ELSE results' = data /\ UNCHANGED error
  /\ UNCHANGED <<addressBar, apiUrl, queryType, searchQuery, artworkId, compareId,
                 debugUrl, isSharedLink, mounted, timer, issued, started, edits>>

\* The rest of a search once its fetch has ended with `outcome`: the body is
\* parsed, results or the error is set, and loading is reset (the same code
\* in handleSearch and in runInitialSearch).
CompleteSearch(c, outcome) ==
  /\ c \in calls
  /\ calls' = calls \ {c}
  /\ loading' = FALSE
  /\ IF outcome = None
     THEN error' = Some(NetworkErrorMessage) /\ UNCHANGED results
     ELSE LET response == outcome[1]
              data == JsonParse(response.body)
          IN IF data = None
             THEN error' = Some(JsonErrorMessage) /\ UNCHANGED results
             ELSE IF ~Ok(response.status)
             THEN /\ error' = OrElse(data[1].error,
                                     OrElse(data[1].detail, Some(FailedToFetch)))
                  /\ UNCHANGED results
             ELSE results' = data /\ UNCHANGED error
  /\ UNCHANGED <<addressBar, apiUrl, queryType, searchQuery, artworkId, compareId,
                 debugUrl, isSharedLink, mounted, timer, issued, started, edits>>

\* The rendering with the similarity scores tested first.
RenderScoresFirst(res) ==
  IF res = None THEN "nothing"
  ELSE IF res[1].similarity_scores THEN "scores"
  ELSE IF res[1].items THEN "grid"
  ELSE "TypeError"

\* What the page renders for `results`: the grid of items when the value has
\* the key items, else the list made from its similarity_scores, which throws
\* when that key is missing.
RenderResults(res) ==
  IF res = None THEN "nothing"
  ELSE IF res[1].items THEN "grid"
  ELSE IF res[1].similarity_scores THEN "scores"
  ELSE "TypeError"

\* The values the user types into the fields.
ApiUrlInputs == {<<>>, defaultApiUrl, OtherApiUrl}

\* onChange of the API URL input.
SetApiUrl(v) ==
  /\ mounted
  /\ edits' = edits + 1
  /\ apiUrl' = v
  /\ UNCHANGED <<addressBar, queryType, searchQuery, artworkId, compareId, results,
                 loading, error, debugUrl, isSharedLink, mounted, timer, calls, issued,
                 started>>
  /\ UNCHANGED proxyVars

\* onChange of the search type select.
SetQueryType(v) ==
  /\ mounted
  /\ edits' = edits + 1
  /\ queryType' = v
  /\ UNCHANGED <<addressBar, apiUrl, searchQuery, artworkId, compareId, results,
                 loading, error, debugUrl, isSharedLink, mounted, timer, calls, issued,
                 started>>
  /\ UNCHANGED proxyVars

\* onChange of the query input, rendered in semantic mode.
SetSearchQuery(v) ==
  /\ mounted
  /\ queryType = Semantic
  /\ edits' = edits + 1
  /\ searchQuery' = v
  /\ UNCHANGED <<addressBar, apiUrl, queryType, artworkId, compareId, results,
                 loading, error, debugUrl, isSharedLink, mounted, timer, calls, issued,
                 started>>
  /\ UNCHANGED proxyVars

\* onChange of the artwork id input, rendered in the two id modes.
SetArtworkId(v) ==
  /\ mounted
  /\ queryType \in {NearestNeighbor, Similarity}
  /\ edits' = edits + 1
  /\ artworkId' = v
  /\ UNCHANGED <<addressBar, apiUrl, queryType, searchQuery, compareId, results,
                 loading, error, debugUrl, isSharedLink, mounted, timer, calls, issued,
                 started>>
  /\ UNCHANGED proxyVars

\* onChange of the comparison id input, rendered in similarity mode.
SetCompareId(v) ==
  /\ mounted
  /\ queryType = Similarity
  /\ edits' = edits + 1
  /\ compareId' = v
  /\ UNCHANGED <<addressBar, apiUrl, queryType, searchQuery, artworkId, results,
                 loading, error, debugUrl, isSharedLink, mounted, timer, calls, issued,
                 started>>
  /\ UNCHANGED proxyVars

\* The Copy Share Link button, rendered while debugUrl is not empty.
handleCopyShareLink ==
  /\ mounted
  /\ debugUrl # <<>>
  /\ addressBar' = updateUrl
  /\ UNCHANGED <<apiUrl, queryType, searchQuery, artworkId, compareId, results,
                 loading, error, debugUrl, isSharedLink, mounted, timer, calls, issued,
                 started, edits>>
  /\ UNCHANGED proxyVars

\* The Clear URL button, rendered while isSharedLink.
ClearUrl ==
  /\ mounted
  /\ isSharedLink
  /\ addressBar' = NoParams
  /\ isSharedLink' = FALSE
  /\ UNCHANGED <<apiUrl, queryType, searchQuery, artworkId, compareId, results,
                 loading, error, debugUrl, mounted, timer, calls, issued, started, edits>>
  /\ UNCHANGED proxyVars

\* ------------------------------------------------------------------ the proxy

\* NextResponse.json(value, {status}).
JsonResponse(value, status) == [status |-> status, body |-> JsonStringify(value)]

ErrorJson(message) == Json(FALSE, FALSE, Some(message), None)
PathRequired == "Path is required"
ApiUrlRequired == "API URL is required"

\* An invocation of GET: the request it serves and its query string, the URL
\* of its outbound fetch (None when it made none), what that fetch ended with
\* (None while it has not ended), and the response the handler returned (None
\* until then).
Invocation(id, params, url, upstream, response) ==
  [id |-> id, params |-> params, url |-> url, upstream |-> upstream,
   response |-> response]

\* GET testing the base URL before the path.
GETStartBaseUrlFirst(id, params) ==
  LET baseUrl == ParamGet(params, "apiUrl")
      path == ParamGet(params, "path")
  IN IF ~Truthy(baseUrl)
     THEN Invocation(id, params, None, None,
                     Some(JsonResponse(ErrorJson(ApiUrlRequired), 400)))
     ELSE IF ~Truthy(path)
     THEN Invocation(id, params, None, None,
                     Some(JsonResponse(ErrorJson(PathRequired), 400)))
     ELSE Invocation(id, params, Some(baseUrl[1] \o path[1]), None, None)

\* GET up to its await: the two parameters are read, a missing one is
\* answered with 400, else the outbound fetch of baseUrl + path is made.
GETStart(id, params) ==
  LET baseUrl == ParamGet(params, "apiUrl")
      path == ParamGet(params, "path")
  IN IF ~Truthy(path)
     THEN Invocation(id, params, None, None,
                     Some(JsonResponse(ErrorJson(PathRequired), 400)))
     ELSE IF ~Truthy(baseUrl)
     THEN Invocation(id, params, None, None,
                     Some(JsonResponse(ErrorJson(ApiUrlRequired), 400)))
     ELSE Invocation(id, params, Some(baseUrl[1] \o path[1]), None, None)

\* GET answering every parsed upstream body with the default status.
GETEndDefaultStatus(r, outcome) ==
  LET data == IF outcome = None THEN None ELSE JsonParse(outcome[1].body)
      response ==
        IF outcome = None \/ data = None
        THEN JsonResponse(ErrorJson(FailedToFetch), 500)
        ELSE JsonResponse(data[1], 200)
  IN Invocation(r.id, r.params, r.url, Some(outcome), Some(response))

\* GET relaying the upstream status also when it is a 2xx one.
GETEndMirrorsStatus(r, outcome) ==
  LET data == IF outcome = None THEN None ELSE JsonParse(outcome[1].body)
      response ==
        IF outcome = None \/ data = None
        THEN JsonResponse(ErrorJson(FailedToFetch), 500)
        ELSE JsonResponse(data[1], outcome[1].status)
  IN Invocation(r.id, r.params, r.url, Some(outcome), Some(response))

\* GET relaying the status of an upstream response whose body does not parse.
GETEndRelaysUnparsed(r, outcome) ==
  LET data == IF outcome = None THEN None ELSE JsonParse(outcome[1].body)
      response ==
        IF outcome = None
        THEN JsonResponse(ErrorJson(FailedToFetch), 500)
        ELSE IF data = None
        THEN JsonResponse(ErrorJson(FailedToFetch), outcome[1].status)
        ELSE IF ~Ok(outcome[1].status)
        THEN JsonResponse(data[1], outcome[1].status)
        ELSE JsonResponse(data[1], 200)
  IN Invocation(r.id, r.params, r.url, Some(outcome), Some(response))

\* GET making its outbound call again when the call threw.
GETEndRetries(r, outcome) ==
  LET data == IF outcome = None THEN None ELSE JsonParse(outcome[1].body)
  IN IF outcome = None
     THEN Invocation(r.id, r.params, r.url, Some(outcome), None)
     ELSE Invocation(r.id, r.params, r.url, Some(outcome),
                     Some(IF data = None THEN JsonResponse(ErrorJson(FailedToFetch), 500)
                          ELSE IF ~Ok(outcome[1].status)
                          THEN JsonResponse(data[1], outcome[1].status)
                          ELSE JsonResponse(data[1], 200)))

\* GET after its await: the outbound fetch ended with `outcome`.
GETEnd(r, outcome) ==
  LET data == IF outcome = None THEN None ELSE JsonParse(outcome[1].body)
      response ==
        IF outcome = None \/ data = None
        THEN JsonResponse(ErrorJson(FailedToFetch), 500)
        ELSE IF ~Ok(outcome[1].status)
        THEN JsonResponse(data[1], outcome[1].status)
        ELSE JsonResponse(data[1], 200)
  IN Invocation(r.id, r.params, r.url, Some(outcome), Some(response))

PageRequest(c) == <<"page", c.n>>

\* The proxy receives the request of a search of the page.
ProxyServesPage ==
  /\ \E c \in calls :
       /\ \A r \in proxy : r.id # PageRequest(c)
       /\ proxy' = proxy \cup {GETStart(PageRequest(c), c.url)}
  /\ UNCHANGED pageVars
  /\ UNCHANGED direct

\* The query strings other clients send to the proxy.
DirectBase == <<"h">>
DirectPath == ArtworksPath \o SearchQ \o encodeURIComponent(<<"a", " ", "/">>)
DirectParams ==
  [apiUrl : {None, Some(<<>>), Some(FormSerialize(DirectBase))},
   path : {None, Some(<<>>), Some(encodeURIComponent(DirectPath))}]

\* The proxy receives a request of another client.
ProxyServesDirect ==
  /\ direct < MaxDirect
  /\ direct' = direct + 1
  /\ \E params \in DirectParams :
       proxy' = proxy \cup {GETStart(<<"direct", direct + 1>>, params)}
  /\ UNCHANGED pageVars

\* The outbound fetch of an invocation ends: it rejects, or it resolves with
\* a response of the upstream API.
ProxyFinishes ==
  /\ \E r \in proxy, outcome \in FetchOutcomes :
       /\ r.url # None
       /\ r.response = None
       /\ proxy' = (proxy \ {r}) \cup {GETEnd(r, outcome)}
  /\ UNCHANGED pageVars
  /\ UNCHANGED direct

\* The fetch of a search resolves with the response the proxy returned.
PageReceives ==
  /\ \E c \in calls, r \in proxy :
       /\ r.id = PageRequest(c)
       /\ r.response # None
       /\ CompleteSearch(c, r.response)
  /\ UNCHANGED proxyVars

\* The fetch of a search rejects: the proxy could not be reached.
PageFetchFails ==
  /\ \E c \in calls : CompleteSearch(c, None)
  /\ UNCHANGED proxyVars

\* What the fetch of the page ends with when the endpoint is left open: any
\* status with a body as NextResponse.json writes it or with one that is no
\* JSON, or a rejection.
EndpointOutcomes ==
  {None} \cup {Some(r) : r \in {x \in Responses : ~x.body.parses \/ x.body.compact}}

\* The fetch of a search resolves with some response of the endpoint, or rejects.
PageFetchEnds ==
  /\ \E c \in calls, outcome \in EndpointOutcomes : CompleteSearch(c, outcome)
  /\ UNCHANGED proxyVars

\* ------------------------------------------------------------------ the user

\* The texts the user types.
Samples == {<<>>, <<"/">>}

UserClicks == started < MaxSearches /\ ClickSearch
UserPressesEnter == started < MaxSearches /\ handleKeyPress
UserEdits ==
  /\ edits < MaxEdits
  /\ \/ \E v \in ApiUrlInputs : SetApiUrl(v)
     \/ \E v \in QueryType : SetQueryType(v)
     \/ \E v \in Samples : SetSearchQuery(v)
     \/ \E v \in Samples : SetArtworkId(v)
     \/ \E v \in Samples : SetCompareId(v)

\* ------------------------------------------------------------------ specifications

\* The page and the proxy together: the requests of the page are served by GET.
Init == InitPage(Optional(QueryType), Optional(Samples \ {<<>>}), {None})

Next ==
  \/ Mount
  \/ RunInitialSearch
  \/ UserClicks
  \/ UserPressesEnter
  \/ UserEdits
  \/ handleCopyShareLink
  \/ ClearUrl
  \/ ProxyServesPage
  \/ PageReceives
  \/ PageFetchFails

Spec == Init /\ [][Next]_vars

\* The page alone: its fetch is answered by any response, or rejects; every
\* fetch ends.
NextPage ==
  \/ Mount
  \/ RunInitialSearch
  \/ UserClicks
  \/ UserPressesEnter
  \/ UserEdits
  \/ PageFetchEnds

SpecPage == Init /\ [][NextPage]_vars /\ WF_vars(PageFetchEnds)

\* One search from every address and every content of the fields: the page
\* is opened at an address made of any texts, and one search is started, by
\* the timer or by the user.
InitBuild ==
  InitPage(Optional(QueryType \cup {UnknownType}), Optional(Strings),
           Optional({OtherApiUrl}))

FirstClick == started = 0 /\ ClickSearch
FirstEnter == started = 0 /\ handleKeyPress

NextBuild ==
  \/ Mount
  \/ RunInitialSearch
  \/ FirstClick
  \/ FirstEnter

SpecBuild == InitBuild /\ [][NextBuild]_vars

\* The proxy alone, serving the requests of any client.
InitProxy == InitPage({None}, {None}, {None})

NextProxy ==
  \/ ProxyServesDirect
  \/ ProxyFinishes

SpecProxy == InitProxy /\ [][NextProxy]_vars

\* The page and the proxy, which also serves one request of another client
\* and makes outbound calls for it.
FirstDirect == direct = 0 /\ ProxyServesDirect

NextNet ==
  \/ Mount
  \/ RunInitialSearch
  \/ UserClicks
  \/ UserPressesEnter
  \/ ProxyServesPage
  \/ PageReceives
  \/ PageFetchFails
  \/ FirstDirect
  \/ ProxyFinishes

SpecNet == Init /\ [][NextNet]_vars

\* The page with the answers of the endpoint kept: the endpoint answers the
\* request of a search with any response (how it made it is left open), the
\* page receives that response, and the fetch of a request that was not
\* answered rejects.
EndpointAnswers ==
  /\ \E c \in calls, outcome \in EndpointOutcomes \ {None} :
       /\ \A r \in proxy : r.id # PageRequest(c)
       /\ proxy' = proxy \cup {Invocation(PageRequest(c), c.url, None, None, outcome)}
  /\ UNCHANGED pageVars
  /\ UNCHANGED direct

PageFetchRejected ==
  /\ \E c \in calls :
       /\ \A r \in proxy : r.id # PageRequest(c)
       /\ CompleteSearch(c, None)
  /\ UNCHANGED proxyVars

NextAnswer ==
  \/ Mount
  \/ RunInitialSearch
  \/ FirstClick
  \/ FirstEnter
  \/ EndpointAnswers
  \/ PageReceives
  \/ PageFetchRejected

SpecAnswer == Init /\ [][NextAnswer]_vars

\* The page with its share link opened again: after a search of the user the
\* address bar holds what updateUrl wrote, and opening it loads the page
\* anew, with the state of the component at its defaults and the fetches of
\* the page that was left dropped.
OpenShareLink ==
  /\ mounted
  /\ started > 0
  /\ apiUrl' = defaultApiUrl
  /\ queryType' = Semantic
  /\ searchQuery' = <<>>
  /\ artworkId' = <<>>
  /\ compareId' = <<>>
  /\ results' = None
  /\ loading' = FALSE
  /\ error' = None
  /\ debugUrl' = <<>>
  /\ isSharedLink' = FALSE
  /\ mounted' = FALSE
  /\ timer' = None
  /\ calls' = {}
  /\ issued' = 0
  /\ UNCHANGED <<addressBar, started, edits>>
  /\ UNCHANGED proxyVars

NextLink ==
  \/ Mount
  \/ RunInitialSearch
  \/ UserClicks
  \/ UserPressesEnter
  \/ UserEdits
  \/ handleCopyShareLink
  \/ OpenShareLink

SpecLink == Init /\ [][NextLink]_vars

\* ------------------------------------------------------------------ properties

\* A text has a character left after trimming.
HasContent(s) == \E i \in 1..Len(s) : s[i] # " "

\* The fields the mode requires are not empty after trimming.
RequiredPresent(mode, q, id, cid) ==
  CASE mode = Semantic -> HasContent(q)
    [] mode = NearestNeighbor -> HasContent(id)
    [] mode = Similarity -> HasContent(id) /\ HasContent(cid)
    [] OTHER -> FALSE

\* The path of the reference, with both ids of a similarity search URL-encoded.
EncodedPath(mode, q, id, cid) ==
  CASE mode = Semantic -> ArtworksPath \o SearchQ \o encodeURIComponent(trim(q))
    [] mode = NearestNeighbor ->
         ArtworksPath \o encodeURIComponent(trim(id)) \o NearestLimit
    [] mode = Similarity ->
         ArtworksPath \o encodeURIComponent(trim(id)) \o SimilarityPart
         \o encodeURIComponent(trim(cid))

\* The path of the reference, with the ids of a similarity search as trimmed.
PlainIdsPath(mode, q, id, cid) ==
  CASE mode = Semantic -> ArtworksPath \o SearchQ \o encodeURIComponent(trim(q))
    [] mode = NearestNeighbor ->
         ArtworksPath \o encodeURIComponent(trim(id)) \o NearestLimit
    [] mode = Similarity ->
         ArtworksPath \o trim(id) \o SimilarityPart \o trim(cid)

\* C1 (as stated): every search that passed validation, started by the user
\* or on load, built the path of the reference, in which the ids of a
\* similarity search are the trimmed ids.
C1_PathWithPlainIds ==
  \A c \in calls : c.apiPath = PlainIdsPath(c.mode, c.query, c.id, c.compareId)

\* C1 (amended): every search that passed validation, started by the user or
\* on load, built the path of the reference, in which the query and every id
\* are trimmed and then URL-encoded, in all three modes.
C1_PathWithEncodedIds ==
  \A c \in calls : c.apiPath = EncodedPath(c.mode, c.query, c.id, c.compareId)

\* A similarity search is in flight whose id is changed by the encoding and
\* whose comparison id is changed by the trimming.
C1_Witness ==
  \E c \in calls :
    /\ c.mode = Similarity
    /\ encodeURIComponent(trim(c.id)) # trim(c.id)
    /\ trim(c.compareId) # c.compareId

\* What a search started in mode `mode` on the fields q, id, cid does in its
\* step: with every required field present it issues one fetch, else it
\* issues none and ends with a validation error.
ValidationMessages == {QueryRequired, IdRequired, BothIdsRequired, InvalidType}
SearchStepValidates(mode, q, id, cid) ==
  IF RequiredPresent(mode, q, id, cid)
  THEN issued' = issued + 1 /\ Cardinality(calls') = Cardinality(calls) + 1
  ELSE /\ issued' = issued
       /\ calls' = calls
       /\ ~loading'
       /\ error' # None
       /\ error'[1] \in ValidationMessages

\* C2: a search, started by the user or by the timer set on load, issues a
\* fetch only if every field its mode requires is not empty after trimming;
\* otherwise it ends with a validation error and without a fetch; and no
\* other step issues a fetch.
C2_FetchOnlyWhenValid ==
  [][ IF started' = started + 1
      THEN SearchStepValidates(queryType, searchQuery, artworkId, compareId)
      ELSE IF timer # None /\ timer' = None
      THEN SearchStepValidates(timer[1].type[1], TextOf(timer[1].query),
                               TextOf(timer[1].id), TextOf(timer[1].compareIdParam))
      ELSE issued' = issued ]_vars

\* A similarity search from the address bar has ended with the validation
\* error and without a fetch: an id was white space only.
C2_Witness ==
  /\ mounted
  /\ timer = None
  /\ started = 0
  /\ issued = 0
  /\ queryType = Similarity
  /\ artworkId # <<>>
  /\ compareId # <<>>
  /\ error = Some(BothIdsRequired)
  /\ ~loading

\* C3: the request of every search carries the base URL as apiUrl and the
\* built path as path, and the proxy answers no request of the page with a
\* 400 for a missing parameter.
C3_RequestCarriesBaseUrlAndPath ==
  /\ \A c \in calls :
       /\ Truthy(ParamGet(c.url, "apiUrl"))
       /\ ParamGet(c.url, "path") = Some(c.apiPath)
  /\ \A r \in proxy :
       r.id[1] = "page" /\ r.response # None => r.response[1].status # 400

\* The error named by the body of a response.
ErrorOf(response) == JsonParse(response.body)[1].error

Missing(raw) == raw = None \/ raw = Some(<<>>)

\* C4: a request without path, or with an empty one, is answered with 400
\* and the error "Path is required"; a request with a path and without
\* apiUrl, or with an empty one, with 400 and "API URL is required"; neither
\* makes an outbound call.
C4_MissingParameter ==
  \A r \in proxy :
    /\ Missing(r.params.path) =>
         /\ r.response # None
         /\ r.response[1].status = 400
         /\ ErrorOf(r.response[1]) = Some(PathRequired)
         /\ r.url = None
         /\ r.upstream = None
    /\ ~Missing(r.params.path) /\ Missing(r.params.apiUrl) =>
         /\ r.response # None
         /\ r.response[1].status = 400
         /\ ErrorOf(r.response[1]) = Some(ApiUrlRequired)
         /\ r.url = None
         /\ r.upstream = None

\* A request without both parameters was answered with the error of the path.
C4_Witness ==
  \E r \in proxy :
    /\ r.params.path = None
    /\ r.params.apiUrl = None
    /\ r.response # None
    /\ ErrorOf(r.response[1]) = Some(PathRequired)

\* The upstream API answered the outbound call of r with a response.
Responded(r) == r.upstream # None /\ r.upstream[1] # None
Upstream(r) == r.upstream[1][1]
\* The outbound call of r threw.
Threw(r) == r.upstream # None /\ r.upstream[1] = None

\* The JSON content of a body; None for a body that is no JSON.
Content(body) == IF body.parses THEN Some(body.value) ELSE None

\* C5 (as stated): for every upstream response whose status is not 2xx, the
\* response of the proxy has the same status and the same body.
C5_RelaysEveryFailure ==
  \A r \in proxy :
    Responded(r) /\ ~Ok(Upstream(r).status) =>
      /\ r.response # None
      /\ r.response[1].status = Upstream(r).status
      /\ Content(r.response[1].body) = Content(Upstream(r).body)

\* C5 (amended): for every upstream response whose status is not 2xx and
\* whose body parses as JSON, the response of the proxy has the same status
\* and the same JSON content.
C5_RelaysJsonFailure ==
  \A r \in proxy :
    Responded(r) /\ ~Ok(Upstream(r).status) /\ Upstream(r).body.parses =>
      /\ r.response # None
      /\ r.response[1].status = Upstream(r).status
      /\ Content(r.response[1].body) = Content(Upstream(r).body)

\* A 404 with an error body, not written compactly, was relayed.
C5_Witness ==
  \E r \in proxy :
    /\ Responded(r)
    /\ Upstream(r).status = 404
    /\ Upstream(r).body.parses
    /\ ~Upstream(r).body.compact
    /\ Upstream(r).body.value.detail # None
    /\ r.response # None
    /\ r.response[1].status = 404

\* The handler failed locally: a parameter was missing, the outbound call
\* threw, or the upstream body did not parse.
LocalFailure(r) ==
  r.url = None \/ Threw(r) \/ (Responded(r) /\ ~Upstream(r).body.parses)

\* C6 (as stated): the status of every response of the proxy is the status
\* of the upstream response, successful or not, or is 400 or 500 produced by
\* a local failure.
C6_StatusMirrorsUpstream ==
  \A r \in proxy :
    r.response # None =>
      \/ Responded(r) /\ r.response[1].status = Upstream(r).status
      \/ LocalFailure(r) /\ r.response[1].status \in {400, 500}

\* C6 (amended): the status of every response of the proxy is the status of
\* the upstream response when that status is not 2xx, 200 when it is 2xx, 400
\* when a parameter is missing, and 500 when the outbound call threw or the
\* upstream body did not parse.
C6_StatusByCase ==
  \A r \in proxy :
    r.response # None =>
      r.response[1].status =
        IF r.url = None THEN 400
        ELSE IF Threw(r) \/ ~Upstream(r).body.parses THEN 500
        ELSE IF ~Ok(Upstream(r).status) THEN Upstream(r).status
        ELSE 200

\* An upstream 201 with a JSON body was answered with 200.
C6_Witness ==
  \E r \in proxy :
    /\ Responded(r)
    /\ Upstream(r).status = 201
    /\ Upstream(r).body.parses
    /\ r.response # None
    /\ r.response[1].status = 200

\* C7: when the outbound call threw or the upstream body did not parse,
\* whatever the upstream status, the response is 500 with the error "Failed
\* to fetch results"; and every invocation that made no outbound call, or
\* whose outbound call has ended, has returned its response.
C7_FailureBecomes500 ==
  \A r \in proxy :
    /\ Threw(r) \/ (Responded(r) /\ ~Upstream(r).body.parses) =>
         /\ r.response # None
         /\ r.response[1].status = 500
         /\ ErrorOf(r.response[1]) = Some(FailedToFetch)
    /\ r.url = None \/ r.upstream # None => r.response # None

\* Both failures have happened: an outbound call threw, and an upstream 404
\* whose body does not parse was answered with 500.
C7_Witness ==
  /\ \E r \in proxy : Threw(r) /\ r.response # None /\ r.response[1].status = 500
  /\ \E r \in proxy :
       /\ Responded(r)
       /\ Upstream(r).status = 404
       /\ ~Upstream(r).body.parses
       /\ r.response # None
       /\ r.response[1].status = 500

\* C8: the view of the stored results is chosen by the key items alone: the
\* grid when the value has items, also next to similarity_scores; the score
\* list when it has similarity_scores and no items; neither of the two when
\* it has neither key.
C8_ViewChosenByItems ==
  results # None =>
    LET value == results[1]
        view == RenderResults(results)
    IN /\ value.items => view = "grid"
       /\ ~value.items /\ value.similarity_scores => view = "scores"
       /\ ~value.items /\ ~value.similarity_scores => view \notin {"grid", "scores"}

\* Results with both keys are stored and shown as the grid.
C8_Witness ==
  /\ results # None
  /\ results[1].items
  /\ results[1].similarity_scores
  /\ RenderResults(results) = "grid"

\* The numbers the fetches of one behaviour can have.
CallNumbers == 1..(MaxSearches + 1)
InFlight(n) == \E c \in calls : c.n = n

\* The step of a search that issues its fetch leaves loading set and results
\* and error cleared.
StartsLoading ==
  issued' = issued + 1 => loading' /\ results' = None /\ error' = None

\* The step of a search, started by the user or by the timer, that fails its
\* validation leaves loading reset and the error set, without results.
EndsAtValidation ==
  (started' = started + 1 \/ (timer # None /\ timer' = None)) /\ issued' = issued =>
    ~loading' /\ results' = None /\ error' # None

\* The step that ends a fetch leaves loading reset and applies one outcome:
\* it sets results and leaves the error, or sets the error and leaves results.
EndsWithOneOutcome ==
  calls' # calls /\ issued' = issued =>
    /\ ~loading'
    /\ \/ results' # None /\ error' = error
       \/ error' # None /\ results' = results
    /\ results = None /\ error = None => (results' = None) # (error' = None)

\* C9: a search that issues its fetch sets loading with results and error
\* cleared; every search ends with loading reset and one outcome applied,
\* results or the error; and, every fetch being answered or rejected, every
\* search in flight ends.
C9_Lifecycle ==
  /\ [][StartsLoading /\ EndsAtValidation /\ EndsWithOneOutcome]_vars
  /\ \A n \in CallNumbers : InFlight(n) ~> ~InFlight(n)

\* A search has ended with results: nothing is in flight, loading is reset,
\* results are set and no error is.
C9_Witness ==
  /\ issued > 0
  /\ calls = {}
  /\ ~loading
  /\ results # None
  /\ error = None

\* The fields the mode requires are not empty.
RequiredFilled(mode, q, id, cid) ==
  CASE mode = Semantic -> q # <<>>
    [] mode = NearestNeighbor -> id # <<>>
    [] mode = Similarity -> id # <<>> /\ cid # <<>>
    [] OTHER -> FALSE

\* C10: the effect run on load sets mode, query, id, comparison id and base
\* URL from type, q, id, compareId and api (the mode stays semantic when type
\* is absent or unknown), and schedules a search exactly when the fields
\* required by the mode it has then are present.
C10_AutoSearchForRestoredMode ==
  [][ ~mounted /\ mounted' =>
        LET type == ParamGet(addressBar, "type")
            given(key, default) ==
              IF Truthy(ParamGet(addressBar, key)) THEN ParamGet(addressBar, key)[1]
              ELSE default
        IN /\ queryType' = IF type # None /\ type[1] \in QueryType THEN type[1]
                           ELSE Semantic
           /\ searchQuery' = given("q", <<>>)
           /\ artworkId' = given("id", <<>>)
           /\ compareId' = given("compareId", <<>>)
           /\ apiUrl' = given("api", defaultApiUrl)
           /\ (timer' # None) =
                RequiredFilled(queryType', searchQuery', artworkId', compareId')
    ]_vars

\* The step runs updateUrl: a search started by the user, or the Copy Share
\* Link button (which changes nothing but the address bar).
UpdatesUrl ==
  started' = started + 1 \/ (addressBar' # addressBar /\ isSharedLink' = isSharedLink)

ParamNames == {"type", "q", "id", "compareId", "api"}

\* C11: after every updateUrl the query string has type, set to the mode; q
\* exactly when the mode is semantic and the query is not empty; id exactly
\* when the mode is nearest_neighbor or similarity and the id is not empty;
\* compareId exactly when the mode is similarity and the comparison id is not
\* empty; api exactly when the base URL is not the default one; and no other
\* parameter.
C11_ParametersWritten ==
  [][ UpdatesUrl =>
        /\ DOMAIN addressBar' = ParamNames
        /\ ParamGet(addressBar', "type") = Some(queryType)
        /\ (addressBar'.q # None) = (queryType = Semantic /\ searchQuery # <<>>)
        /\ (addressBar'.id # None) =
             (queryType \in {NearestNeighbor, Similarity} /\ artworkId # <<>>)
        /\ (addressBar'.compareId # None) = (queryType = Similarity /\ compareId # <<>>)
        /\ (addressBar'.api # None) = (apiUrl # defaultApiUrl)
    ]_vars

\* A similarity search was started with a query left in its field and the
\* base URL emptied: the address bar has both ids and an empty api, and no q.
C11_Witness ==
  /\ started > 0
  /\ queryType = Similarity
  /\ searchQuery # <<>>
  /\ apiUrl = <<>>
  /\ addressBar.q = None
  /\ addressBar.id # None
  /\ addressBar.compareId # None
  /\ addressBar.api = Some(<<>>)

\* The step starts a search, by the user or by the timer set on load.
StartsSearch == started' = started + 1 \/ (timer # None /\ timer' = None)

\* The step applies the answer of a fetch: loading is reset, and results are
\* set with the error left, or the error is set with results left.
AppliesAnswer ==
  /\ ~loading'
  /\ \/ results' # None /\ error' = error
     \/ error' # None /\ results' = results

\* C12: a search started while an earlier one is in flight clears results and
\* the error in its first step (the error is then that of its own
\* validation, if it fails it) and cancels no fetch: a fetch leaves the set
\* of fetches in flight only by a step that applies its answer, whatever
\* fetches were issued after it and whichever ends first.
C12_SupersededStillApplied ==
  [][ /\ StartsSearch /\ calls # {} =>
           /\ results' = None
           /\ IF issued' = issued + 1 THEN error' = None
              ELSE error' # None /\ error'[1] \in ValidationMessages
           /\ calls \subseteq calls'
      /\ calls \ calls' # {} => Cardinality(calls \ calls') = 1 /\ AppliesAnswer
    ]_vars

\* The answer of a superseded fetch was applied: two fetches were issued, the
\* later one is still in flight, and results are set (the later search
\* cleared them when it started).
C12_Witness ==
  /\ issued = 2
  /\ \E c \in calls : c.n = 2
  /\ \A c \in calls : c.n = 2
  /\ results # None

\* No step issues more than one fetch; the proxy holds at most one invocation
\* for each request; and an invocation whose outbound call has ended has
\* returned its response and makes no other call.
OneCallEach ==
  /\ issued' \in {issued, issued + 1}
  /\ \A r1, r2 \in proxy : r1.id = r2.id => r1 = r2
  /\ \A r \in proxy : r.upstream # None => r.response # None /\ r \in proxy'

\* C13 (as stated): there are no retries, and while the error of a search
\* is shown a fetch is issued only by a search the user starts.
C13_NoCallAfterErrorUntilUserActs ==
  [][ /\ OneCallEach
      /\ issued' = issued + 1 => StartsSearch
      /\ error # None /\ issued' = issued + 1 => started' = started + 1
    ]_vars

\* C13 (amended): there are no retries: a fetch is issued only by the step
\* of a trigger (a search started by the user, or the timer set on load),
\* one for each; the step that ends a search issues none; and an invocation
\* of the proxy makes at most one outbound call.
C13_NoRetries ==
  [][ /\ OneCallEach
      /\ issued' = issued + 1 => StartsSearch
      /\ calls \ calls' # {} => issued' = issued
    ]_vars

\* A search of the page has ended in error with nothing left in flight, and
\* an outbound call of the proxy threw and was answered with 500.
C13_Witness ==
  /\ issued > 0
  /\ calls = {}
  /\ timer = None
  /\ error # None
  /\ \E r \in proxy : Threw(r) /\ r.response # None /\ r.response[1].status = 500

\* The message of the validation error of a mode.
RequiredMessage(mode) ==
  CASE mode = Semantic -> QueryRequired
    [] mode = NearestNeighbor -> IdRequired
    [] mode = Similarity -> BothIdsRequired
    [] OTHER -> InvalidType

\* The message for a body received with a status that is not 2xx: the error
\* of the body when it has the key, else its detail when it has that key.
PresentMessage(value) ==
  IF value.error # None THEN value.error
  ELSE IF value.detail # None THEN value.detail
  ELSE Some(FailedToFetch)

\* The same with an empty error or detail counted as absent.
NonEmptyMessage(value) ==
  IF value.error \notin {None, Some("")} THEN value.error
  ELSE IF value.detail \notin {None, Some("")} THEN value.detail
  ELSE Some(FailedToFetch)

\* The step of a search that fails its validation sets the message of its mode.
SurfacesValidation ==
  StartsSearch /\ issued' = issued =>
    /\ error' = Some(RequiredMessage(IF started' = started + 1 THEN queryType
                                     ELSE timer[1].type[1]))
    /\ results' = None

\* The step that ends the fetch of a search in failure sets one message and
\* leaves results: the message of the rejection when the request was not
\* answered, that of the parse error when the body is no JSON, and
\* Message(body) when the status is not 2xx.
SurfacesFailure(Message(_)) ==
  \A c \in calls \ calls' :
    LET answers == {r \in proxy : r.id = PageRequest(c)}
    IN IF answers = {}
       THEN error' = Some(NetworkErrorMessage) /\ results' = results
       ELSE \A r \in answers :
              LET response == r.response[1]
              IN IF ~response.body.parses
                 THEN error' = Some(JsonErrorMessage) /\ results' = results
                 ELSE IF ~Ok(response.status)
                 THEN error' = Message(response.body.value) /\ results' = results
                 ELSE error' = error

C15_ResultsOrError == ~(results # None /\ error # None)

\* C16: loading is set whenever a fetch of a search is in flight.
C16_LoadingWhileInFlight == calls # {} => loading

\* C17: when a link written by updateUrl is opened, the effect run on load
\* restores the mode, the base URL and the fields the mode uses (the state
\* it sets writes the same link again), and, when those fields are not
\* empty after trimming, it schedules a search that builds the path a search
\* started by the user in that state builds.
C17_ShareLinkRoundTrip ==
  [][ ~mounted /\ mounted' /\ started > 0 =>
        /\ updateUrl' = addressBar
        /\ RequiredPresent(queryType', searchQuery', artworkId', compareId') =>
             /\ timer' # None
             /\ LET t == timer'[1]
                    onLoad == InitialSearchPath(t.type, t.query, t.id, t.compareIdParam)
                    byUser == HandleSearchPath(queryType', searchQuery', artworkId',
                                               compareId')
                IN onLoad.ok /\ byUser.ok /\ onLoad.path = byUser.path
    ]_vars

====
